---- MODULE Spec2Model ----
(***************************************************************************)
(* Model of the GSAP text animation system:                                *)
(*   src/animations/utils/textSplitter.js  (text splitter, scroll trigger  *)
(*       strategies, animation registry, orchestrator)                     *)
(*   src/src/index.js                      (entry point)                   *)
(*                                                                         *)
(* Three specifications share the definitions below:                       *)
(*   Spec         the page: script evaluation, DOMContentLoaded, fonts,    *)
(*                initializeTextAnimations, runTextAnimations, and the     *)
(*                scroll / timeline callbacks of the animated elements     *)
(*   SpecDelay    getDelay applied to attribute strings                    *)
(*   SpecTrigger  createScrollTrigger applied to type strings, and the     *)
(*                callbacks of the observers it registers                  *)
(***************************************************************************)
EXTENDS Integers, Sequences, FiniteSets, TLC

VARIABLES
  \* ---- the browser environment
  readyState,          \* document.readyState
  dclFired,            \* DOMContentLoaded has been dispatched
  fontsReady,          \* document.fonts.ready is resolved
  reducedMotion,       \* matchMedia("(prefers-reduced-motion: reduce)").matches
  gsapLoaded,          \* typeof gsap !== "undefined"
  splitTextLoaded,     \* typeof SplitText !== "undefined"
  scrollTriggerLoaded, \* typeof ScrollTrigger !== "undefined"
  \* ---- the program
  scriptRun,           \* index.js has been evaluated
  jsEnabled,           \* documentElement carries the class "js-enabled"
  listeners,           \* DOMContentLoaded listeners of document, in order
  pendingThen,         \* callbacks attached to the unresolved fonts.ready
  microtasks,          \* promise reactions queued to run
  state,               \* orchestrator lifecycle state
  doc,                 \* the marked elements, in document order
  els,                 \* per element: opacity, split, timeline, observers
  invoked,             \* elements whose animate was invoked, in call order
  warnings,            \* console.warn of the per-element guard, in order
  failed,              \* elements whose SplitText constructor throws
  libWarnings,         \* "GSAP or SplitText plugin not loaded" warnings
  runCount,            \* completed calls of runTextAnimations
  \* ---- getDelay on its own
  attr,                \* the data-text-ani-delay attribute under test
  delayResult,         \* what getDelay returned for it
  \* ---- createScrollTrigger on its own
  trigType,            \* the type argument
  trigRet,             \* the call's outcome
  trigObs,             \* the observers the call registered
  trigErrors,          \* console.error calls of createScrollTrigger
  trigTl,              \* the timeline handed to createScrollTrigger
  zone,                \* where the trigger element is relative to the viewport
  replay               \* "fresh", "reset" by onLeaveBack, "replayed" by the entry after it

envVars  == <<readyState, dclFired, fontsReady, reducedMotion, gsapLoaded,
              splitTextLoaded, scrollTriggerLoaded>>
progVars == <<scriptRun, jsEnabled, listeners, pendingThen, microtasks, state,
              doc, els, invoked, warnings, failed, libWarnings, runCount>>
delayVars == <<attr, delayResult>>
trigVars == <<trigType, trigRet, trigObs, trigErrors, trigTl, zone,
              replay>>
vars == <<envVars, progVars, delayVars, trigVars>>

\* ------------------------------------------------------------------ bounds
MaxElems == 2   \* marked elements in the document
MaxLen   == 3   \* characters in a delay attribute value
Duration == 2   \* timeline ticks until the from-keyframe completes

\* ------------------------------------------------------- numbers (seconds)
\* A JavaScript number that may be a fraction: num / den.
Num(n, d) == [num |-> n, den |-> d]
NumEq(a, b) == a.num * b.den = b.num * a.den
Zero == Num(0, 1)

\* ------------------------------------------------------------ parseInt
Alphabet == {"0", "2", "5", "a", "x", "-", ".", " "}
HexChars == <<"0", "1", "2", "3", "4", "5", "6", "7", "8", "9",
              "a", "b", "c", "d", "e", "f">>
WhiteSpace == {" "}

UpperHex == <<"A", "B", "C", "D", "E", "F">>

IsDigit(c, radix) ==
  \/ \E i \in 1..radix : HexChars[i] = c
  \/ radix = 16 /\ \E i \in 1..Len(UpperHex) : UpperHex[i] = c
DigitVal(c) ==
  IF \E i \in 1..Len(UpperHex) : UpperHex[i] = c
  THEN 9 + (CHOOSE i \in 1..Len(UpperHex) : UpperHex[i] = c)
  ELSE (CHOOSE i \in 1..Len(HexChars) : HexChars[i] = c) - 1

RECURSIVE TrimStart(_)
TrimStart(s) ==
  IF s # <<>> /\ Head(s) \in WhiteSpace THEN TrimStart(Tail(s)) ELSE s

\* the longest prefix of s made of radix digits
RECURSIVE DigitPrefix(_, _)
DigitPrefix(s, radix) ==
  IF s # <<>> /\ IsDigit(Head(s), radix)
  THEN <<Head(s)>> \o DigitPrefix(Tail(s), radix)
  ELSE <<>>

RECURSIVE DigitsValue(_, _, _)
DigitsValue(s, radix, acc) ==
  IF s = <<>> THEN acc
  ELSE DigitsValue(Tail(s), radix, acc * radix + DigitVal(Head(s)))

NaN == [nan |-> TRUE, val |-> 0]
Int32(n) == [nan |-> FALSE, val |-> n]

\* parseInt(string) with no radix argument
parseInt(str) ==
  LET s1 == TrimStart(str)
      neg == s1 # <<>> /\ Head(s1) = "-"
      s2 == IF s1 # <<>> /\ Head(s1) \in {"-", "+"} THEN Tail(s1) ELSE s1
      hex == Len(s2) >= 2 /\ s2[1] = "0" /\ s2[2] \in {"x", "X"}
      radix == IF hex THEN 16 ELSE 10
      s3 == IF hex THEN SubSeq(s2, 3, Len(s2)) ELSE s2
      z == DigitPrefix(s3, radix)
      n == DigitsValue(z, radix, 0)
  IN IF z = <<>> THEN NaN ELSE Int32(IF neg THEN 0 - n ELSE n)

\* ------------------------------------------------------------- getDelay
\* An element's delay attribute: absent, or present with a string value.
NoAttr == [has |-> FALSE, value |-> <<>>]
Attr(s) == [has |-> TRUE, value |-> s]

\* variant: the milliseconds are returned without the division by 1000
getDelayNoDivide(a) ==
  IF ~a.has THEN Zero
  ELSE LET delayNumber == parseInt(a.value)
       IN IF delayNumber.nan THEN Zero ELSE Num(delayNumber.val, 1)

getDelay(a) ==
  IF ~a.has THEN Zero
  ELSE LET delayNumber == parseInt(a.value)
       IN IF delayNumber.nan THEN Zero ELSE Num(delayNumber.val, 1000)

\* ------------------------------------------------------------- timeline
\* gsap.timeline({ paused: true }): progress counts ticks, 0..Duration.
NoTimeline == [exists |-> FALSE, progress |-> 0, paused |-> TRUE]
NewTimeline == [exists |-> TRUE, progress |-> 0, paused |-> TRUE]

play(tl) == [tl EXCEPT !.paused = FALSE]
pause(tl) == [tl EXCEPT !.paused = TRUE]
setProgress(tl, p) == [tl EXCEPT !.progress = p]
restart(tl) == [tl EXCEPT !.progress = 0, !.paused = FALSE]

\* ------------------------------------------------- trigger strategy table
\* Scroll positions of the trigger element, as four zones:
\*   0  before "top bottom"          (element below the viewport)
\*   1  past "top bottom", before "top 90%"
\*   2  past "top 90%", before the end
\*   3  past the end                 (element above the viewport)
StartTopBottom == [name |-> "top bottom", zone |-> 1]
StartScrollerPosition == [name |-> "top 90%", zone |-> 2]
EndZone == [name |-> "end", zone |-> 3]

\* One ScrollTrigger.create({...}) configuration.
Observer(start, once, onEnter, onEnterBack, onLeaveBack, animation, scrub, pin) ==
  [start |-> start, once |-> once, onEnter |-> onEnter,
   onEnterBack |-> onEnterBack, onLeaveBack |-> onLeaveBack,
   animation |-> animation, scrub |-> scrub, pin |-> pin, alive |-> TRUE]

\* the callbacks the strategies hand to ScrollTrigger.create
OnEnterPlay(tl) == play(tl)
OnEnterBackRestart(tl) == restart(tl)
\* variant: onLeaveBack pauses without timeline.progress(0)
OnLeaveBackPauseOnly(tl) == pause(tl)
OnLeaveBackReset(tl) == pause(setProgress(tl, 0))

StrategyNames == {"default", "replayAlways", "scrub", "pinned"}

DefaultStrategy ==
  << Observer(StartScrollerPosition, TRUE, "play", "none", "none",
              FALSE, FALSE, FALSE) >>
ReplayAlwaysStrategy ==
  << Observer(StartTopBottom, FALSE, "none", "none", "reset",
              FALSE, FALSE, FALSE),
     Observer(StartScrollerPosition, FALSE, "play", "restart", "none",
              FALSE, FALSE, FALSE) >>
ScrubStrategy ==
  << Observer(StartScrollerPosition, FALSE, "none", "none", "none",
              TRUE, TRUE, FALSE) >>
PinnedStrategy ==
  << Observer(StartScrollerPosition, FALSE, "none", "none", "none",
              TRUE, FALSE, TRUE) >>

triggerTypes(type) ==
  CASE type = "default" -> DefaultStrategy
    [] type = "replayAlways" -> ReplayAlwaysStrategy
    [] type = "scrub" -> ScrubStrategy
    [] type = "pinned" -> PinnedStrategy

\* Property names every object literal inherits from Object.prototype.
InheritedNames == {"constructor", "hasOwnProperty", "toString", "valueOf",
                   "__proto__"}

\* triggerTypes[type]: an own strategy, an inherited value, or undefined.
Lookup(type) ==
  IF type \in StrategyNames THEN "strategy"
  ELSE IF type \in InheritedNames THEN "inherited"
  ELSE "undefined"

\* What calling an inherited value as triggerFunction(triggerElement, timeline)
\* does in module (strict) code, where this is undefined.
CallInherited(type) ==
  CASE type = "constructor" -> "element"      \* Object(el, tl) returns el
    [] type = "toString" -> "string"          \* "[object Undefined]"
    [] OTHER -> "threw"                       \* TypeError

\* createScrollTrigger(triggerElement, timeline, type)
createScrollTrigger(type, stLoaded) ==
  LET triggerFunction == Lookup(type)
  IN IF triggerFunction = "undefined"
     THEN [ret |-> "list", obs |-> <<>>, errors |-> 1]
     ELSE IF triggerFunction = "strategy"
     THEN IF stLoaded
          THEN [ret |-> "list", obs |-> triggerTypes(type), errors |-> 0]
          ELSE [ret |-> "threw", obs |-> <<>>, errors |-> 0]
     ELSE [ret |-> CallInherited(type), obs |-> <<>>, errors |-> 0]

createReplayAlwaysScrollTrigger(stLoaded) ==
  createScrollTrigger("replayAlways", stLoaded)

\* ------------------------------------------- observer callbacks on scroll
CallbackOf(ob, ev) ==
  CASE ev = "onEnter" -> ob.onEnter
    [] ev = "onEnterBack" -> ob.onEnterBack
    [] ev = "onLeaveBack" -> ob.onLeaveBack
    [] OTHER -> "none"

RunCallback(cb, tl) ==
  CASE cb = "play" -> OnEnterPlay(tl)
    [] cb = "restart" -> OnEnterBackRestart(tl)
    [] cb = "reset" -> OnLeaveBackReset(tl)
    [] OTHER -> tl

\* An attached animation follows the scroll position (scrub) or the default
\* toggleActions "play none none none".
DriveAnimation(ob, ev, tl, p) ==
  IF ~ob.animation THEN tl
  ELSE IF ob.scrub
       THEN CASE ev = "onEnter" -> setProgress(tl, p)
              [] ev = "onLeave" -> setProgress(tl, Duration)
              [] ev = "onEnterBack" -> setProgress(tl, p)
              [] OTHER -> setProgress(tl, 0)
       ELSE IF ev = "onEnter" THEN play(tl) ELSE tl

\* One observer receives one event: the timeline and the observer afterwards.
Deliver(ob, ev, tl, p) ==
  IF ~ob.alive THEN [tl |-> tl, ob |-> ob]
  ELSE [tl |-> DriveAnimation(ob, ev, RunCallback(CallbackOf(ob, ev), tl), p),
        ob |-> IF ob.once /\ ev = "onEnter" THEN [ob EXCEPT !.onEnter = "none"]
               ELSE IF ob.once /\ ev = "onLeave" THEN [ob EXCEPT !.alive = FALSE]
               ELSE ob]

\* The event a move between adjacent zones is for an observer, if any.
EventFor(ob, from, to) ==
  IF to = from + 1
  THEN IF to = ob.start.zone THEN "onEnter"
       ELSE IF to = EndZone.zone THEN "onLeave" ELSE "none"
  ELSE IF from = EndZone.zone THEN "onEnterBack"
       ELSE IF from = ob.start.zone THEN "onLeaveBack" ELSE "none"

\* A scroll update: observers are updated in creation order when scrolling
\* forward and in reverse order when scrolling back.
RECURSIVE DeliverAll(_, _, _, _, _, _)
DeliverAll(obs, order, from, to, tl, p) ==
  IF order = <<>> THEN [tl |-> tl, obs |-> obs]
  ELSE LET k == Head(order)
           ev == EventFor(obs[k], from, to)
           r == IF ev = "none" THEN [tl |-> tl, ob |-> obs[k]]
                ELSE Deliver(obs[k], ev, tl, p)
       IN DeliverAll([obs EXCEPT ![k] = r.ob], Tail(order), from, to, r.tl, p)

Forward(n) == [k \in 1..n |-> k]
Backward(n) == [k \in 1..n |-> n + 1 - k]

\* ------------------------------------------------------ animation registry
\* Object.entries(animations): insertion order.
Registry == <<"title", "heading", "paragraph", "eyebrow">>
RegistryNames == {Registry[k] : k \in 1..Len(Registry)}
\* a data-text-ani value no registry selector matches
Unregistered == "button"
Kinds == RegistryNames \cup {Unregistered}

SplitTypes(name) ==
  IF name = "paragraph" THEN <<"lines", "words">> ELSE <<"chars", "words">>

\* the delay of the from-keyframe each entry appends
KeyframeDelay(name, delay) ==
  CASE name = "title" -> delay
    [] name = "heading" -> delay
    [] name = "paragraph" -> Num(5, 10)
    [] name = "eyebrow" -> Num(25, 100)

\* A marked element's mutable state.
NewElement ==
  [opacity |-> 0, split |-> "none", types |-> <<>>, reverts |-> 0,
   tl |-> NoTimeline, from |-> <<>>, obs |-> <<>>]

\* splitTextForAnimation(element, types, options): the element is resolved;
\* the SplitText constructor may throw.
splitTextForAnimation(e, types, throws) ==
  IF throws THEN [threw |-> TRUE, el |-> e]
  ELSE [threw |-> FALSE, el |-> [e EXCEPT !.split = "split", !.types = types]]

\* createBaseAnimation(element, animationCallback), the callback being
\* tl.from(split.<targets>, { ..., delay, onComplete: () => split.revert() })
createBaseAnimation(e, keyframeDelay, stLoaded) ==
  LET shown == [e EXCEPT !.opacity = 1, !.tl = NewTimeline]
      st == createScrollTrigger("default", stLoaded)
  IN IF st.ret = "threw" THEN [threw |-> TRUE, el |-> shown]
     ELSE [threw |-> FALSE,
           el |-> [shown EXCEPT !.obs = st.obs,
                                !.from = <<[delay |-> keyframeDelay,
                                            onComplete |-> "revert"]>>]]

\* animations[name].animate(element, delay)
animate(name, e, delay, throws, stLoaded) ==
  LET split == splitTextForAnimation(e, SplitTypes(name), throws)
  IN IF split.threw THEN split
     ELSE createBaseAnimation(split.el, KeyframeDelay(name, delay), stLoaded)

\* document.querySelectorAll(animationType.selector): indices in document order
RECURSIVE Matching(_, _, _)
Matching(d, name, i) ==
  IF i > Len(d) THEN <<>>
  ELSE (IF d[i].kind = name THEN <<i>> ELSE <<>>) \o Matching(d, name, i + 1)

querySelectorAll(d, name) == Matching(d, name, 1)

\* elements.forEach with the per-element try/catch; r is the run so far:
\* [els, invoked, warnings].
\* variant: no per-element try/catch, a throw ends the entry's forEach
RECURSIVE RunElementsAbortOnThrow(_, _, _, _, _, _)
RunElementsAbortOnThrow(d, name, idxs, r, throwers, stLoaded) ==
  IF idxs = <<>> THEN r
  ELSE LET i == Head(idxs)
           a == animate(name, r.els[i], getDelay(d[i].delay), i \in throwers,
                        stLoaded)
           r1 == [els |-> [r.els EXCEPT ![i] = a.el],
                  invoked |-> Append(r.invoked, i),
                  warnings |-> IF a.threw THEN Append(r.warnings, i)
                               ELSE r.warnings]
       IN IF a.threw THEN r1
          ELSE RunElementsAbortOnThrow(d, name, Tail(idxs), r1, throwers,
                                       stLoaded)

RECURSIVE RunElements(_, _, _, _, _, _)
RunElements(d, name, idxs, r, throwers, stLoaded) ==
  IF idxs = <<>> THEN r
  ELSE LET i == Head(idxs)
           a == animate(name, r.els[i], getDelay(d[i].delay), i \in throwers,
                        stLoaded)
           r1 == [els |-> [r.els EXCEPT ![i] = a.el],
                  invoked |-> Append(r.invoked, i),
                  warnings |-> IF a.threw THEN Append(r.warnings, i)
                               ELSE r.warnings]
       IN RunElements(d, name, Tail(idxs), r1, throwers, stLoaded)

\* Object.entries(animations).forEach
RECURSIVE RunRegistry(_, _, _, _, _)
RunRegistry(d, names, r, throwers, stLoaded) ==
  IF names = <<>> THEN r
  ELSE RunRegistry(d, Tail(names),
                   RunElements(d, Head(names), querySelectorAll(d, Head(names)),
                               r, throwers, stLoaded),
                   throwers, stLoaded)

\* runTextAnimations()
runTextAnimations(d, r, rm, throwers, stLoaded) ==
  IF rm THEN r ELSE RunRegistry(d, Registry, r, throwers, stLoaded)

\* ------------------------------------------------------------ orchestrator
\* querySelectorAll("[data-text-ani]").forEach(el => el.style.opacity = "1")
ShowAll(es) == [i \in DOMAIN es |-> [es[i] EXCEPT !.opacity = 1]]

isGSAPAvailable(gsap, splitText) == gsap /\ splitText

\* p is the program state: [listeners, state, els, libWarnings]
\* variant: the warning without showing the elements
handleGSAPLoadingNoShow(p, available) ==
  IF ~available
  THEN [ok |-> FALSE, p |-> [p EXCEPT !.libWarnings = @ + 1]]
  ELSE [ok |-> TRUE, p |-> p]

handleGSAPLoading(p, available) ==
  IF ~available
  THEN [ok |-> FALSE,
        p |-> [p EXCEPT !.els = ShowAll(@), !.libWarnings = @ + 1]]
  ELSE [ok |-> TRUE, p |-> p]

\* variant: no reduced-motion check
initializeTextAnimationsNoReducedMotion(p, rm, available) ==
  LET h == handleGSAPLoading(p, available)
  IN IF ~h.ok THEN [h.p EXCEPT !.state = "Unavailable"]
     ELSE [p EXCEPT !.listeners = Append(@, "fontsThenRun"),
                    !.state = "Deferred"]

initializeTextAnimations(p, rm, available) ==
  IF rm
  THEN [p EXCEPT !.els = ShowAll(@), !.state = "ReducedMotionShortCircuit"]
  ELSE LET h == handleGSAPLoading(p, available)
       IN IF ~h.ok THEN [h.p EXCEPT !.state = "Unavailable"]
          ELSE [p EXCEPT !.listeners = Append(@, "fontsThenRun"),
                         !.state = "Deferred"]

\* initializeMumino()
initializeMumino(p, rm, available) ==
  initializeTextAnimations([p EXCEPT !.jsEnabled = TRUE], rm, available)

\* One DOMContentLoaded listener runs.
InvokeListener(l, p, rm, available, fonts) ==
  IF l = "initializeMumino" THEN initializeMumino(p, rm, available)
  ELSE \* document.fonts.ready.then(() => runTextAnimations())
       IF fonts THEN [p EXCEPT !.microtasks = @ + 1]
       ELSE [p EXCEPT !.pendingThen = @ + 1]

\* Dispatch invokes the listeners the target had when dispatch began.
RECURSIVE InvokeAll(_, _, _, _, _)
InvokeAll(snapshot, p, rm, available, fonts) ==
  IF snapshot = <<>> THEN p
  ELSE InvokeAll(Tail(snapshot),
                 InvokeListener(Head(snapshot), p, rm, available, fonts),
                 rm, available, fonts)

\* ---------------------------------------------------------------- ticks
\* The timeline advances one tick while it plays.
tick(tl) == setProgress(tl, tl.progress + 1)
CanTick(tl) == tl.exists /\ ~tl.paused /\ tl.progress < Duration

\* split.revert()
revert(e) == [e EXCEPT !.split = "reverted", !.reverts = @ + 1]

\* An element's timeline ticks; the from-keyframe's onComplete runs when the
\* timeline reaches its end.
TickElement(e) ==
  LET t == tick(e.tl)
      e1 == [e EXCEPT !.tl = t]
  IN IF t.progress = Duration /\ e.from # <<>> THEN revert(e1) ELSE e1

\* ------------------------------------------------------- the page (Spec)
Available == isGSAPAvailable(gsapLoaded, splitTextLoaded)

Program ==
  [jsEnabled |-> jsEnabled, listeners |-> listeners,
   pendingThen |-> pendingThen, microtasks |-> microtasks, state |-> state,
   els |-> els, libWarnings |-> libWarnings]

Commit(p) ==
  /\ jsEnabled' = p.jsEnabled
  /\ listeners' = p.listeners
  /\ pendingThen' = p.pendingThen
  /\ microtasks' = p.microtasks
  /\ state' = p.state
  /\ els' = p.els
  /\ libWarnings' = p.libWarnings

DelayChoices == {NoAttr, Attr(<<"2", "5", "0">>)}
ElemChoices == [kind : Kinds, delay : DelayChoices]
Docs == UNION {[1..n -> ElemChoices] : n \in 0..MaxElems}

IdleDelay == /\ attr = NoAttr
             /\ delayResult = [called |-> FALSE, value |-> Zero]
IdleTrigger == /\ trigType = "default"
               /\ trigRet = "notCalled"
               /\ trigObs = <<>>
               /\ trigErrors = 0
               /\ trigTl = NewTimeline
               /\ zone = 0
               /\ replay = "fresh"
IdleProgram(d) ==
  /\ scriptRun = FALSE
  /\ jsEnabled = FALSE
  /\ listeners = <<>>
  /\ pendingThen = 0
  /\ microtasks = 0
  /\ state = "Uninitialized"
  /\ doc = d
  /\ els = [i \in 1..Len(d) |-> NewElement]
  /\ invoked = <<>>
  /\ warnings = <<>>
  /\ failed = {}
  /\ libWarnings = 0
  /\ runCount = 0

Init ==
  /\ readyState = "loading"
  /\ dclFired = FALSE
  /\ fontsReady = FALSE
  /\ reducedMotion \in BOOLEAN
  /\ gsapLoaded \in BOOLEAN
  /\ splitTextLoaded \in BOOLEAN
  /\ scrollTriggerLoaded \in BOOLEAN
  /\ \E d \in Docs : IdleProgram(d)
  /\ IdleDelay
  /\ IdleTrigger

\* index.js is evaluated (lines 12-16).
ScriptEval ==
  /\ ~scriptRun
  /\ microtasks = 0
  /\ scriptRun' = TRUE
  /\ IF readyState = "loading"
     THEN Commit([Program EXCEPT !.listeners = Append(@, "initializeMumino")])
     ELSE Commit(initializeMumino(Program, reducedMotion, Available))
  /\ UNCHANGED <<envVars, doc, invoked, warnings, failed, runCount,
                 delayVars, trigVars>>

\* The parser finishes: readyState becomes "interactive".
ParseDone ==
  /\ readyState = "loading"
  /\ microtasks = 0
  /\ readyState' = "interactive"
  /\ UNCHANGED <<dclFired, fontsReady, reducedMotion, gsapLoaded,
                 splitTextLoaded, scrollTriggerLoaded, progVars, delayVars,
                 trigVars>>

\* DOMContentLoaded is dispatched at document.
DOMContentLoaded ==
  /\ readyState = "interactive"
  /\ ~dclFired
  /\ microtasks = 0
  /\ dclFired' = TRUE
  /\ Commit(InvokeAll(listeners, Program, reducedMotion, Available, fontsReady))
  /\ UNCHANGED <<readyState, fontsReady, reducedMotion, gsapLoaded,
                 splitTextLoaded, scrollTriggerLoaded, scriptRun, doc, invoked,
                 warnings, failed, runCount, delayVars, trigVars>>

\* The load event: readyState becomes "complete".
Load ==
  /\ readyState = "interactive"
  /\ dclFired
  /\ microtasks = 0
  /\ readyState' = "complete"
  /\ UNCHANGED <<dclFired, fontsReady, reducedMotion, gsapLoaded,
                 splitTextLoaded, scrollTriggerLoaded, progVars, delayVars,
                 trigVars>>

\* document.fonts.ready resolves: the attached callbacks are queued.
FontsLoaded ==
  /\ ~fontsReady
  /\ microtasks = 0
  /\ fontsReady' = TRUE
  /\ microtasks' = microtasks + pendingThen
  /\ pendingThen' = 0
  /\ UNCHANGED <<readyState, dclFired, reducedMotion, gsapLoaded,
                 splitTextLoaded, scrollTriggerLoaded, scriptRun, jsEnabled,
                 listeners, state, doc, els, invoked, warnings, failed,
                 libWarnings, runCount, delayVars, trigVars>>

\* The user changes the reduced-motion preference.
TogglePreference ==
  /\ microtasks = 0
  /\ reducedMotion' = ~reducedMotion
  /\ UNCHANGED <<readyState, dclFired, fontsReady, gsapLoaded, splitTextLoaded,
                 scrollTriggerLoaded, progVars, delayVars, trigVars>>

RegistryElements(d) == {i \in 1..Len(d) : d[i].kind \in RegistryNames}

\* The fonts.ready reaction runs: runTextAnimations().
RunMicrotask ==
  /\ microtasks > 0
  /\ \E throwers \in SUBSET RegistryElements(doc) :
       LET r == runTextAnimations(doc,
                  [els |-> els, invoked |-> invoked, warnings |-> warnings],
                  reducedMotion, throwers, scrollTriggerLoaded)
       IN /\ reducedMotion => throwers = {}
          /\ failed' = throwers
          /\ els' = r.els
          /\ invoked' = r.invoked
          /\ warnings' = r.warnings
  /\ microtasks' = microtasks - 1
  /\ runCount' = runCount + 1
  /\ state' = "Idle"
  /\ UNCHANGED <<envVars, scriptRun, jsEnabled, listeners, pendingThen, doc,
                 libWarnings, delayVars, trigVars>>

\* A scroll update takes element i past its start: onEnter of its observers.
ScrollEnter(i) ==
  /\ microtasks = 0
  /\ els[i].obs # <<>>
  /\ LET ob == els[i].obs[1]
         r == Deliver(ob, "onEnter", els[i].tl, 0)
     IN /\ ob.alive
        /\ CallbackOf(ob, "onEnter") # "none"
        /\ els' = [els EXCEPT ![i].tl = r.tl, ![i].obs = <<r.ob>>]
  /\ UNCHANGED <<envVars, scriptRun, jsEnabled, listeners, pendingThen,
                 microtasks, state, doc, invoked, warnings, failed, libWarnings,
                 runCount, delayVars, trigVars>>

\* Element i's timeline advances.
Tick(i) ==
  /\ microtasks = 0
  /\ CanTick(els[i].tl)
  /\ els' = [els EXCEPT ![i] = TickElement(els[i])]
  /\ UNCHANGED <<envVars, scriptRun, jsEnabled, listeners, pendingThen,
                 microtasks, state, doc, invoked, warnings, failed, libWarnings,
                 runCount, delayVars, trigVars>>

Next ==
  \/ ScriptEval
  \/ ParseDone
  \/ DOMContentLoaded
  \/ Load
  \/ FontsLoaded
  \/ TogglePreference
  \/ RunMicrotask
  \/ \E i \in 1..Len(doc) : ScrollEnter(i)
  \/ \E i \in 1..Len(doc) : Tick(i)

Spec == Init /\ [][Next]_vars

\* --------------------------------------------------- getDelay (SpecDelay)
IdleEnv ==
  /\ readyState = "complete"
  /\ dclFired = TRUE
  /\ fontsReady = TRUE
  /\ reducedMotion = FALSE
  /\ gsapLoaded = TRUE
  /\ splitTextLoaded = TRUE

InitDelay ==
  /\ IdleEnv
  /\ scrollTriggerLoaded = TRUE
  /\ IdleProgram(<<>>)
  /\ IdleTrigger
  /\ attr \in {NoAttr, Attr(<<>>)}
  /\ delayResult = [called |-> FALSE, value |-> Zero]

\* getDelay(element) is called for the element's current attribute.
GetDelay ==
  /\ ~delayResult.called
  /\ delayResult' = [called |-> TRUE, value |-> getDelay(attr)]
  /\ UNCHANGED <<envVars, progVars, attr, trigVars>>

\* The page author types one more character into the attribute's value.
EditAttribute ==
  /\ \E c \in Alphabet :
       /\ Len(attr.value) < MaxLen
       /\ attr' = Attr(Append(attr.value, c))
  /\ delayResult' = [called |-> FALSE, value |-> Zero]
  /\ UNCHANGED <<envVars, progVars, trigVars>>

NextDelay == GetDelay \/ EditAttribute

SpecDelay == InitDelay /\ [][NextDelay]_vars

\* --------------------------------------- createScrollTrigger (SpecTrigger)
TypeStrings == StrategyNames \cup InheritedNames \cup {"bogus", ""}

InitTrigger ==
  /\ IdleEnv
  /\ scrollTriggerLoaded \in BOOLEAN
  /\ IdleProgram(<<>>)
  /\ IdleDelay
  /\ trigType \in TypeStrings
  /\ trigRet = "notCalled"
  /\ trigObs = <<>>
  /\ trigErrors = 0
  /\ trigTl = NewTimeline
  /\ zone = 0
  /\ replay = "fresh"

\* createScrollTrigger(triggerElement, timeline, type) is called.
CallCreateScrollTrigger ==
  /\ trigRet = "notCalled"
  /\ LET r == IF trigType = "replayAlways"
              THEN createReplayAlwaysScrollTrigger(scrollTriggerLoaded)
              ELSE createScrollTrigger(trigType, scrollTriggerLoaded)
     IN /\ trigRet' = r.ret
        /\ trigObs' = r.obs
        /\ trigErrors' = trigErrors + r.errors
  /\ UNCHANGED <<envVars, progVars, delayVars, trigType, trigTl, zone, replay>>

\* which callbacks of the registered observers a move between zones runs
Runs(obs, from, to, ev, cb) ==
  \E k \in 1..Len(obs) :
    /\ obs[k].alive
    /\ EventFor(obs[k], from, to) = ev
    /\ CallbackOf(obs[k], ev) = cb

ReplayAfter(obs, from, to, was) ==
  IF Runs(obs, from, to, "onLeaveBack", "reset") THEN "reset"
  ELSE IF was = "reset" /\ Runs(obs, from, to, "onEnter", "play")
       THEN "replayed"
       ELSE was

\* The page scrolls down: the trigger element moves one zone up the viewport.
ScrollForward ==
  /\ trigRet # "notCalled"
  /\ zone < EndZone.zone
  /\ zone' = zone + 1
  /\ \E p \in 0..Duration :
       LET r == DeliverAll(trigObs, Forward(Len(trigObs)), zone, zone + 1,
                           trigTl, p)
       IN /\ trigTl' = r.tl
          /\ trigObs' = r.obs
  /\ replay' = ReplayAfter(trigObs, zone, zone + 1, replay)
  /\ UNCHANGED <<envVars, progVars, delayVars, trigType, trigRet, trigErrors>>

\* The page scrolls back up.
ScrollBackward ==
  /\ trigRet # "notCalled"
  /\ zone > 0
  /\ zone' = zone - 1
  /\ \E p \in 0..Duration :
       LET r == DeliverAll(trigObs, Backward(Len(trigObs)), zone, zone - 1,
                           trigTl, p)
       IN /\ trigTl' = r.tl
          /\ trigObs' = r.obs
  /\ replay' = ReplayAfter(trigObs, zone, zone - 1, replay)
  /\ UNCHANGED <<envVars, progVars, delayVars, trigType, trigRet, trigErrors>>

\* The timeline advances while it plays.
TickTrigger ==
  /\ trigRet # "notCalled"
  /\ CanTick(trigTl)
  /\ trigTl' = tick(trigTl)
  /\ UNCHANGED <<envVars, progVars, delayVars, trigType, trigRet, trigObs,
                 trigErrors, zone, replay>>

NextTrigger ==
  \/ CallCreateScrollTrigger
  \/ ScrollForward
  \/ ScrollBackward
  \/ TickTrigger

SpecTrigger == InitTrigger /\ [][NextTrigger]_vars

\* ================================================================ claims
AllVisible == \A i \in DOMAIN els : els[i].opacity = 1
NothingCreated ==
  \A i \in DOMAIN els :
    /\ els[i].split = "none"
    /\ ~els[i].tl.exists
    /\ els[i].from = <<>>
    /\ els[i].obs = <<>>
Terminal == state \in {"ReducedMotionShortCircuit", "Unavailable", "Idle"}
Initializes == state = "Uninitialized" /\ state' # "Uninitialized"
RunsTextAnimations == runCount' = runCount + 1

\* ---- C1
\* C1 as stated: with reduced motion not preferred at initialization and the
\* library loaded, once the document is complete, its fonts are loaded and
\* nothing is queued, runTextAnimations has run exactly once and the
\* orchestrator is Idle, whenever index.js was evaluated.
PageSettled ==
  /\ scriptRun
  /\ readyState = "complete"
  /\ fontsReady
  /\ microtasks = 0
C1_RunsOnceWhenSettled ==
  (PageSettled /\ state \notin {"Uninitialized", "ReducedMotionShortCircuit",
                                "Unavailable"})
    => (state = "Idle" /\ runCount = 1)

\* ---- C2
\* C2 as stated: a Split Result is reverted at most once, only when its
\* timeline has completed, and a Split Result not yet reverted always has a
\* from-keyframe that reverts it on a timeline that plays or that a live
\* observer can still play.
CanStillComplete(e) ==
  /\ e.from # <<>>
  /\ e.tl.exists
  /\ \/ ~e.tl.paused
     \/ \E k \in 1..Len(e.obs) : e.obs[k].alive /\ e.obs[k].onEnter = "play"
C2_RevertedExactlyOnce ==
  \A i \in DOMAIN els :
    /\ els[i].reverts <= 1
    /\ els[i].reverts = 1 => els[i].tl.progress = Duration
    /\ els[i].split = "split" => CanStillComplete(els[i])

\* ---- C3
\* C3 as stated: for each registry entry, an animated element without a
\* data-text-ani-delay attribute has a from-keyframe whose delay is 0.
C3_NoAttributeMeansNoDelay ==
  \A i \in DOMAIN els :
    (doc[i].kind \in RegistryNames /\ ~doc[i].delay.has /\ els[i].from # <<>>)
      => NumEq(els[i].from[1].delay, Zero)

\* ---- C4
\* C4 as stated: in every terminal outcome of initialization every marked
\* element (all start at CSS opacity 0) is at full opacity.
C4_TerminalMeansVisible == Terminal => AllVisible

\* ---- C5
\* C5 as stated: createScrollTrigger with a type that is none of the four
\* strategy names logs exactly one error, returns an empty list, registers
\* no observer and does not throw.
C5_UnknownTypeIsEmpty ==
  (trigRet # "notCalled" /\ trigType \notin StrategyNames)
    => (trigErrors = 1 /\ trigRet = "list" /\ trigObs = <<>>)

\* ---- C6
\* C6 as stated: after initializeTextAnimations ran with gsap or SplitText
\* absent, every marked element has opacity 1, the warning was logged exactly
\* once and nothing was created, whatever the reduced-motion preference.
C6_WarnsOnceInEveryEnvironment ==
  (state # "Uninitialized" /\ ~Available)
    => (AllVisible /\ NothingCreated /\ libWarnings = 1)

\* C6 as amended: after initializeTextAnimations ran with gsap or SplitText
\* absent, every marked element has opacity 1 and no timeline, split or
\* observer exists, for both values of the preference; the warning is logged
\* exactly once when reduced motion is not preferred at the call and not at
\* all when it is.
C6_WarnsOnceUnlessReducedMotion ==
  /\ [](( state # "Uninitialized" /\ ~Available)
          => (AllVisible /\ NothingCreated /\ runCount = 0))
  /\ [][(Initializes /\ ~Available)
          => libWarnings' = (IF reducedMotion THEN 0 ELSE 1)]_vars
  /\ [][state # "Uninitialized" => libWarnings' = libWarnings]_vars

C6_Witness ==
  /\ state = "Unavailable"
  /\ libWarnings = 1
  /\ Len(doc) > 0
  /\ AllVisible
  /\ readyState = "complete"

\* ---- C7
\* C7: under reduced motion initializeTextAnimations shows every marked
\* element and stops: no split, timeline or observer, no DOMContentLoaded or
\* fonts wait, no warning, library loaded or not; and runTextAnimations under
\* reduced motion creates nothing either.
C7_ReducedMotionShortCircuit ==
  /\ [][(Initializes /\ reducedMotion)
          => /\ state' = "ReducedMotionShortCircuit"
             /\ listeners' = listeners
             /\ libWarnings' = libWarnings]_vars
  /\ [](state = "ReducedMotionShortCircuit"
          => /\ AllVisible
             /\ NothingCreated
             /\ runCount = 0
             /\ pendingThen = 0
             /\ microtasks = 0
             /\ \A k \in 1..Len(listeners) : listeners[k] # "fontsThenRun")
  /\ [][(RunsTextAnimations /\ reducedMotion)
          => (els' = els /\ invoked' = invoked /\ warnings' = warnings)]_vars

C7_Witness ==
  /\ state = "ReducedMotionShortCircuit"
  /\ Available
  /\ scrollTriggerLoaded
  /\ Len(doc) > 0
  /\ AllVisible
  /\ readyState = "complete"
  /\ fontsReady

\* ---- C8
\* C8: when runTextAnimations runs without reduced motion, animate is invoked
\* for every element matching a registry entry, throwing or not, in registry
\* order and then document order; each throwing element logs one warning; and
\* the call returns (the orchestrator is Idle).
Rank(name) == CHOOSE k \in 1..Len(Registry) : Registry[k] = name
InRegistryOrder(seq) ==
  \A p, q \in 1..Len(seq) :
    p < q => \/ Rank(doc[seq[p]].kind) < Rank(doc[seq[q]].kind)
             \/ /\ doc[seq[p]].kind = doc[seq[q]].kind
                /\ seq[p] < seq[q]
Lists(seq, set) ==
  /\ {seq[k] : k \in 1..Len(seq)} = set
  /\ Len(seq) = Cardinality(set)
Throwing == IF scrollTriggerLoaded THEN failed' ELSE RegistryElements(doc)
C8_FailureIsolation ==
  [][(RunsTextAnimations /\ ~reducedMotion)
       => /\ Lists(invoked', RegistryElements(doc))
          /\ InRegistryOrder(invoked')
          /\ Lists(warnings', Throwing)
          /\ InRegistryOrder(warnings')
          /\ state' = "Idle"]_vars

\* an element threw and a later element of the same entry was animated
C8_Witness ==
  /\ runCount = 1
  /\ \E p, q \in 1..Len(invoked) :
       /\ p < q
       /\ doc[invoked[p]].kind = doc[invoked[q]].kind
       /\ invoked[p] \in failed
       /\ els[invoked[p]].from = <<>>
       /\ invoked[q] \notin failed
       /\ els[invoked[q]].from # <<>>
  /\ Len(warnings) = 1

\* ---- C9
\* C9: replayAlways registers exactly two observers; onLeaveBack of the first
\* leaves the timeline at progress 0 and paused; the entry past "top 90%"
\* that follows plays it from progress 0; onEnterBack restarts it from 0.
C9_ReplayAlways ==
  [][(trigType = "replayAlways" /\ scrollTriggerLoaded)
       => /\ (trigRet = "notCalled" /\ trigRet' # "notCalled")
               => (trigRet' = "list" /\ Len(trigObs') = 2 /\ trigErrors' = 0)
          /\ (zone = StartTopBottom.zone /\ zone' = zone - 1)
               => (trigTl'.progress = 0 /\ trigTl'.paused)
          /\ (replay = "reset" /\ zone' = zone + 1 /\ zone' = StartScrollerPosition.zone)
               => (trigTl'.progress = 0 /\ ~trigTl'.paused)
          /\ (zone = EndZone.zone /\ zone' = zone - 1)
               => (trigTl'.progress = 0 /\ ~trigTl'.paused)]_vars

C9_Witness ==
  /\ trigType = "replayAlways"
  /\ Len(trigObs) = 2
  /\ replay = "replayed"
  /\ zone = StartScrollerPosition.zone
  /\ trigTl.progress = Duration
  /\ ~trigTl.paused

\* ---- C10
IsDecimal(c) == IsDigit(c, 10)
\* an optional sign followed by one or more decimal digits, and nothing else
IsIntegerLiteral(s) ==
  LET signed == s # <<>> /\ s[1] \in {"-", "+"}
      first == IF signed THEN 2 ELSE 1
  IN /\ Len(s) >= first
     /\ \A k \in first..Len(s) : IsDecimal(s[k])

RECURSIVE Pow(_, _)
Pow(b, n) == IF n = 0 THEN 1 ELSE b * Pow(b, n - 1)
RECURSIVE PlaceSum(_, _, _, _)
\* the number the digits s[lo..hi] denote in the radix
PlaceSum(s, lo, hi, radix) ==
  IF lo > hi THEN 0
  ELSE DigitVal(s[lo]) * Pow(radix, hi - lo) + PlaceSum(s, lo + 1, hi, radix)

\* The integer a string starts with: after leading white space and an
\* optional sign, the longest run of digits (hexadecimal after 0x).
LeadingInteger(s) ==
  LET n == Len(s)
      b0 == CHOOSE i \in 1..(n + 1) :
              /\ \A k \in 1..(i - 1) : s[k] \in WhiteSpace
              /\ i = n + 1 \/ s[i] \notin WhiteSpace
      signed == b0 <= n /\ s[b0] \in {"-", "+"}
      b == IF signed THEN b0 + 1 ELSE b0
      hex == b + 1 <= n /\ s[b] = "0" /\ s[b + 1] \in {"x", "X"}
      radix == IF hex THEN 16 ELSE 10
      lo == IF hex THEN b + 2 ELSE b
      hi == CHOOSE j \in (lo - 1)..n :
              /\ \A k \in lo..j : IsDigit(s[k], radix)
              /\ j = n \/ ~IsDigit(s[j + 1], radix)
      magnitude == PlaceSum(s, lo, hi, radix)
  IN [some |-> hi >= lo,
      value |-> IF signed /\ s[b0] = "-" THEN 0 - magnitude ELSE magnitude]

\* C10 as stated: an integer literal n gives n / 1000, and a value that is
\* not an integer literal, like an absent attribute, gives 0.
C10_FailsExactlyOnNonLiterals ==
  delayResult.called =>
    IF attr.has /\ IsIntegerLiteral(attr.value)
    THEN NumEq(delayResult.value, Num(LeadingInteger(attr.value).value, 1000))
    ELSE NumEq(delayResult.value, Zero)

\* C10 as amended: getDelay returns 0 when the attribute is absent or its
\* value, after leading white space and an optional sign, does not start with
\* a digit; otherwise it returns the integer the value starts with, divided
\* by 1000, whatever follows the digits.
C10_LeadingIntegerOverThousand ==
  delayResult.called =>
    IF attr.has /\ LeadingInteger(attr.value).some
    THEN NumEq(delayResult.value, Num(LeadingInteger(attr.value).value, 1000))
    ELSE NumEq(delayResult.value, Zero)

\* "250" gives 0.25
C10_Witness ==
  /\ delayResult.called
  /\ attr = Attr(<<"2", "5", "0">>)
  /\ NumEq(delayResult.value, Num(1, 4))

====
